---- MODULE Spec2Model ----
(***************************************************************************)
(* Model of the EAN inventory / label tool and of the unique-code          *)
(* generator (src/ean_creator.py, src/app.py, src/unique_codes.py).        *)
(*                                                                         *)
(* Python strings are modelled as sequences of one-character strings, so   *)
(* that slicing, padding, prefix tests and digit tests are computed the    *)
(* way the code computes them.  A pandas DataFrame is the sequence of its  *)
(* rows.  A missing cell (NaN) is the one-element sequence <<"NaN">>.      *)
(***************************************************************************)
EXTENDS Integers, Sequences, FiniteSets, TLC

VARIABLES
    df_inventory,               \* st.session_state.df_inventory (rows in order)
    uploaded_filename,          \* st.session_state.uploaded_filename ("" is None)
    st_message,                 \* what the last run of ean_creator.main reported
    uploaded_file,              \* what the inventory file_uploader widget holds
    df_unique_history,          \* st.session_state.df_unique_history
    uploaded_unique_filename,   \* st.session_state.uploaded_unique_filename
    newly_generated_codes,      \* st.session_state.newly_generated_codes
    uc_message,                 \* what the last run of unique_codes.main reported
    uc_call,                    \* the last "Generar Codigos" click: its inputs, and
                                \* get_unique_codes' counters when it returned or raised
    excel_export,               \* rows of the "historial actualizado" download this run offers
    uploaded_unique_file,       \* what the history file_uploader widget holds
    arg_df,                     \* argument of a direct call of generate_next_ean
    ret,                        \* what that call returned, in both revisions
    form_state,                 \* the add-product form of the last run: the identifier it
                                \* suggested, and whether the submitted identifier was that one
    accepted_suggestions,       \* the suggested identifiers added, in order, since the last import
    revision,                   \* which revision of the inventory page the session runs
    arg_products,               \* the product list handed to the label renderer (arg_df is the inventory)
    pdf,                        \* what the renderer of each revision produced
    arg_sample,                 \* arguments of a direct call of get_unique_codes
    ret_sample                  \* what that call returned or raised, and its counters

vars == <<df_inventory, uploaded_filename, st_message, uploaded_file, df_unique_history, uploaded_unique_filename, newly_generated_codes, uc_message, uc_call, excel_export, uploaded_unique_file, arg_df, ret, form_state, accepted_suggestions, arg_products, pdf, arg_sample, ret_sample, revision>>

inv_vars == <<df_inventory, uploaded_filename, st_message, uploaded_file, form_state, accepted_suggestions, revision>>

uc_vars == <<df_unique_history, uploaded_unique_filename, newly_generated_codes, uc_message, uc_call, excel_export, uploaded_unique_file>>

call_vars == <<arg_df, ret>>

render_vars == <<arg_products, pdf>>

sample_vars == <<arg_sample, ret_sample>>

(***************************************************************************)
(* Strings                                                                 *)
(***************************************************************************)
digits == <<"0", "1", "2", "3", "4", "5", "6", "7", "8", "9">>

ascii_uppercase == <<"A", "B", "C", "D", "E", "F", "G", "H", "I", "J", "K", "L", "M", "N", "O", "P", "Q", "R", "S", "T", "U", "V", "W", "X", "Y", "Z">>

ascii_lowercase == <<"a", "b", "c", "d", "e", "f", "g", "h", "i", "j", "k", "l", "m", "n", "o", "p", "q", "r", "s", "t", "u", "v", "w", "x", "y", "z">>

Range(s) == {s[i] : i \in 1..Len(s)}

Min(a, b) == IF a <= b THEN a ELSE b

IndexOf(c, s) == CHOOSE i \in 1..Len(s) : s[i] = c

IsDigitChar(c) == c \in Range(digits)

\* int(c) for one decimal digit
DigitVal(c) == IndexOf(c, digits) - 1

\* str.isdigit(): non-empty and every character a digit
IsDigit(s) == Len(s) > 0 /\ \A i \in 1..Len(s) : IsDigitChar(s[i])

\* str.startswith(p)
StartsWith(s, p) == Len(s) >= Len(p) /\ SubSeq(s, 1, Len(p)) = p

\* s[a:b] for 0 <= a <= b (Python slice, clipped to the string)
Slice(s, a, b) == SubSeq(s, a + 1, Min(b, Len(s)))

RECURSIVE ToInt(_)
\* int(s) of a string of decimal digits
ToInt(s) == IF Len(s) = 0 THEN 0 ELSE 10 * ToInt(SubSeq(s, 1, Len(s) - 1)) + DigitVal(s[Len(s)])

RECURSIVE Str(_)
\* str(n) of a natural number
Str(n) == IF n < 10 THEN <<digits[n + 1]>> ELSE Str(n \div 10) \o <<digits[(n % 10) + 1]>>

RECURSIVE ZFill(_, _)
\* str.zfill(width): pad with "0" on the left up to width, never truncate
ZFill(s, width) == IF Len(s) >= width THEN s ELSE ZFill(<<"0">> \o s, width)

\* f"{n:04d}"
Format04d(n) == ZFill(Str(n), 4)

IsSpace(c) == c = " "

RECURSIVE LStrip(_)
LStrip(s) == IF Len(s) > 0 /\ IsSpace(s[1]) THEN LStrip(Tail(s)) ELSE s

RECURSIVE RStrip(_)
RStrip(s) == IF Len(s) > 0 /\ IsSpace(s[Len(s)]) THEN RStrip(SubSeq(s, 1, Len(s) - 1)) ELSE s

\* str.strip()
Strip(s) == RStrip(LStrip(s))

\* a letter outside ASCII (n with tilde), lower and upper case, each one character
n_tilde == "n-tilde"

N_TILDE == "N-TILDE"

LowerChar(c) == IF c \in Range(ascii_uppercase) THEN ascii_lowercase[IndexOf(c, ascii_uppercase)] ELSE IF c = N_TILDE THEN n_tilde ELSE c

UpperChar(c) == IF c \in Range(ascii_lowercase) THEN ascii_uppercase[IndexOf(c, ascii_lowercase)] ELSE IF c = n_tilde THEN N_TILDE ELSE c

IsAlnumChar(c) == c \in Range(ascii_uppercase) \cup Range(ascii_lowercase) \cup Range(digits) \cup {n_tilde, N_TILDE}

\* str.isalnum(): non-empty and every character a letter or a digit (of any script)
IsAlnum(s) == Len(s) > 0 /\ \A i \in 1..Len(s) : IsAlnumChar(s[i])

\* str.lower()
Lower(s) == [i \in 1..Len(s) |-> LowerChar(s[i])]

\* str.upper()
Upper(s) == [i \in 1..Len(s) |-> UpperChar(s[i])]

RECURSIVE Replace(_, _)
\* str.replace(old, ""): every occurrence of old, left to right, removed
Replace(s, old) == IF Len(s) = 0 THEN s ELSE IF StartsWith(s, old) THEN Replace(SubSeq(s, Len(old) + 1, Len(s)), old) ELSE <<s[1]>> \o Replace(Tail(s), old)

\* a missing cell
NaN == <<"NaN">>

\* Series.astype(str) on one cell
AsTypeStr(cell) == IF cell = NaN THEN <<"n", "a", "n">> ELSE cell

(***************************************************************************)
(* Results of calls that may raise                                         *)
(***************************************************************************)
Ok(v) == [err |-> "", val |-> v]

Raise(e) == [err |-> e, val |-> <<>>]

RaiseInt(e) == [err |-> e, val |-> 0]

RangeExhausted == "Se agoto el rango de EAN disponible para el prefijo definido."

InvalidLiteral == "invalid literal for int() with base 10"

(***************************************************************************)
(* EAN generation                                                          *)
(***************************************************************************)
COUNTRY_PREFIX == <<"8", "4", "3", "7", "0", "0", "0", "0">>

\* ean_creator.py: the rows that follow the pattern (prefix, 13 characters, digits)
FollowsPattern(ean) == StartsWith(ean, COUNTRY_PREFIX) /\ Len(ean) = 13 /\ IsDigit(ean)

SetMax(S) == CHOOSE m \in S : \A x \in S : x <= m

\* a slip: the maximum itself is handed out again
next_sequential_number_no_increment(df) == LET pattern_eans == {i \in 1..Len(df) : FollowsPattern(df[i].EAN)} seq_numbers == {ToInt(Slice(df[i].EAN, 8, 12)) : i \in pattern_eans} IN IF Len(df) = 0 THEN 1 ELSE IF pattern_eans = {} THEN 1 ELSE SetMax(seq_numbers)

\* ean_creator.py _next_sequential_number
_next_sequential_number(df) == LET pattern_eans == {i \in 1..Len(df) : FollowsPattern(df[i].EAN)} seq_numbers == {ToInt(Slice(df[i].EAN, 8, 12)) : i \in pattern_eans} IN IF Len(df) = 0 THEN 1 ELSE IF pattern_eans = {} THEN 1 ELSE SetMax(seq_numbers) + 1

RECURSIVE SumFrom(_, _)
\* sum(int(x) for x in ean[start::-2]), start a 1-based index
SumFrom(ean, start) == IF start < 1 THEN 0 ELSE DigitVal(ean[start]) + SumFrom(ean, start - 2)

\* a slip: the final "% 10" is missing, so a sum ending in 0 gives 10
calculate_checksum_no_final_mod(ean) == LET evensum == SumFrom(ean, Len(ean) - 1) oddsum == SumFrom(ean, Len(ean)) IN 10 - ((evensum + oddsum * 3) % 10)

\* barcode.get_barcode_class("ean13") is python-barcode's EuropeanArticleNumber13;
\* its calculate_checksum on the 12 digits:
\*   evensum = sum of ean[-2::-2], oddsum = sum of ean[-1::-2],
\*   (10 - ((evensum + oddsum * 3) % 10)) % 10
calculate_checksum(ean) == LET evensum == SumFrom(ean, Len(ean) - 1) oddsum == SumFrom(ean, Len(ean)) IN (10 - ((evensum + oddsum * 3) % 10)) % 10

\* ean_cls(base_12).get_fullcode(): the first 12 characters and their checksum
get_fullcode(base) == LET ean == Slice(base, 0, 12) IN ean \o Str(calculate_checksum(ean))

\* the largest sequence number that fits the 4 digits after the prefix
MaxSeq == 9999

\* ean_creator.py generate_next_ean
generate_next_ean(df) == LET seq == _next_sequential_number(df) IN IF seq > MaxSeq THEN Raise(RangeExhausted) ELSE Ok(get_fullcode(COUNTRY_PREFIX \o Format04d(seq)))

\* app.py: df["EAN"].str.slice(8, 12).astype(int) succeeds on this cell
AppParses(ean) == IsDigit(Slice(ean, 8, 12))

\* app.py _next_sequential_number
app_next_sequential_number(df) == IF Len(df) = 0 THEN Ok(1) ELSE IF \E i \in 1..Len(df) : ~AppParses(df[i].EAN) THEN RaiseInt(InvalidLiteral) ELSE Ok(SetMax({ToInt(Slice(df[i].EAN, 8, 12)) : i \in 1..Len(df)}) + 1)

\* app.py generate_next_ean
app_generate_next_ean(df) == LET seq == app_next_sequential_number(df) IN IF seq.err # "" THEN Raise(seq.err) ELSE IF seq.val > MaxSeq THEN Raise(RangeExhausted) ELSE Ok(get_fullcode(COUNTRY_PREFIX \o Format04d(seq.val)))

\* an identifier with the prefix, a sequence number and a given last digit
WithSeq(seq, check) == COUNTRY_PREFIX \o Format04d(seq) \o <<check>>

ForeignPrefix == <<"5", "0", "1", "2", "3", "4", "5", "6">>

(***************************************************************************)
(* The inventory page: ean_creator.main, one script run per interaction    *)
(***************************************************************************)
Row(name, ean) == [Producto |-> name, EAN |-> ean]

\* the uploader holds nothing
NoFile == [name |-> "", header |-> <<>>, rows |-> <<>>]

NoMessage == [load |-> "", form |-> ""]

producto == <<"p", "r", "o", "d", "u", "c", "t", "o">>

ean_header == <<"e", "a", "n">>

codigo_ean_13 == <<"c", "o", "d", "i", "g", "o", " ", "e", "a", "n", "-", "1", "3">>

\* col_map: the name a column is renamed to ("" when it is left alone)
ColMap(col) ==
    LET col_lower == Lower(Strip(col))
    IN  IF col_lower = producto THEN "Producto"
        ELSE IF col_lower \in {ean_header, codigo_ean_13} THEN "EAN"
        ELSE ""

HasColumn(header, key) == \E i \in 1..Len(header) : ColMap(header[i]) = key

ColumnIndex(header, key) == CHOOSE i \in 1..Len(header) : ColMap(header[i]) = key

\* {"Producto", "EAN"}.issubset(df.columns)
HasRequiredColumns(header) == HasColumn(header, "Producto") /\ HasColumn(header, "EAN")

\* df["EAN"].astype(str).str.replace(".0", "", regex=False).str.zfill(13)
NormalizeEan(cell) == ZFill(Replace(AsTypeStr(cell), <<".", "0">>), 13)

\* a slip: no row is dropped
drop_duplicates_keeps_all(df) == df

RECURSIVE drop_duplicates(_)
\* df.drop_duplicates(subset=["Producto"]): the first row of each name is kept
drop_duplicates(df) ==
    IF Len(df) = 0 THEN df
    ELSE LET front == SubSeq(df, 1, Len(df) - 1)
             last == df[Len(df)]
         IN  IF \E j \in 1..Len(front) : front[j].Producto = last.Producto
             THEN drop_duplicates(front)
             ELSE Append(drop_duplicates(front), last)

\* the table read from the first sheet, columns renamed, EAN normalised
ParsedRows(file) ==
    LET p == ColumnIndex(file.header, "Producto")
        e == ColumnIndex(file.header, "EAN")
    IN  [i \in 1..Len(file.rows) |-> Row(file.rows[i][p], NormalizeEan(file.rows[i][e]))]

\* a slip: a rejected file empties the table and forgets the loaded file
LoadStepErrorClearsTable(file, df, fname) ==
    IF file # NoFile /\ file.name # fname
    THEN IF HasRequiredColumns(file.header)
         THEN [df |-> drop_duplicates(ParsedRows(file)), fname |-> file.name, load |-> "loaded"]
         ELSE [df |-> <<>>, fname |-> "", load |-> "error"]
    ELSE [df |-> df, fname |-> fname, load |-> ""]

\* a slip: the file in the uploader is loaded again in every run
LoadStepAlwaysReloads(file, df, fname) ==
    IF file # NoFile
    THEN IF HasRequiredColumns(file.header)
         THEN [df |-> drop_duplicates(ParsedRows(file)), fname |-> file.name, load |-> "loaded"]
         ELSE [df |-> df, fname |-> fname, load |-> "error"]
    ELSE [df |-> df, fname |-> fname, load |-> ""]

\* step 1 of a run: load the uploaded file if it is new (by name)
LoadStep(file, df, fname) ==
    IF file # NoFile /\ file.name # fname
    THEN IF HasRequiredColumns(file.header)
         THEN [df |-> drop_duplicates(ParsedRows(file)), fname |-> file.name, load |-> "loaded"]
         ELSE [df |-> df, fname |-> fname, load |-> "error"]
    ELSE [df |-> df, fname |-> fname, load |-> ""]

RECURSIVE FirstFreeEan(_, _)
\* the while loop of the form: the first candidate not in used_eans
FirstFreeEan(seq, used_eans) ==
    IF seq > MaxSeq THEN <<>>
    ELSE LET candidate_ean == get_fullcode(COUNTRY_PREFIX \o Format04d(seq))
         IN  IF candidate_ean \notin used_eans THEN candidate_ean
             ELSE FirstFreeEan(seq + 1, used_eans)

\* a slip: the search starts at sequence number 1 again
suggested_ean_restarts_at_one(df) ==
    IF Len(df) = 0 THEN <<>>
    ELSE FirstFreeEan(1, {df[i].EAN : i \in 1..Len(df)})

\* suggested_ean of the form
suggested_ean(df) ==
    IF Len(df) = 0 THEN <<>>
    ELSE FirstFreeEan(_next_sequential_number(df), {df[i].EAN : i \in 1..Len(df)})

\* the user leaves the suggested value in the EAN field
UseSuggested == <<"suggested">>

ProductoColumn(df) == {df[i].Producto : i \in 1..Len(df)}

\* a slip: the new row is put in front of the table
FormStepInsertsFirst(df, name_input, ean_choice) ==
    LET product_name == Strip(name_input)
        ean_input == IF ean_choice = UseSuggested THEN suggested_ean(df) ELSE ean_choice
    IN  IF Len(product_name) = 0 THEN [df |-> df, form |-> "name_missing"]
        ELSE IF ~IsDigit(ean_input) \/ Len(ean_input) # 13 THEN [df |-> df, form |-> "ean_invalid"]
        ELSE IF product_name \in ProductoColumn(df) THEN [df |-> df, form |-> "name_exists"]
        ELSE IF ean_input \in {df[i].EAN : i \in 1..Len(df)} THEN [df |-> df, form |-> "ean_exists"]
        ELSE [df |-> <<Row(product_name, ean_input)>> \o df, form |-> "added"]

\* a slip: success is reported but the new row is not kept
FormStepDropsNewRow(df, name_input, ean_choice) ==
    LET product_name == Strip(name_input)
        ean_input == IF ean_choice = UseSuggested THEN suggested_ean(df) ELSE ean_choice
    IN  IF Len(product_name) = 0 THEN [df |-> df, form |-> "name_missing"]
        ELSE IF ~IsDigit(ean_input) \/ Len(ean_input) # 13 THEN [df |-> df, form |-> "ean_invalid"]
        ELSE IF product_name \in ProductoColumn(df) THEN [df |-> df, form |-> "name_exists"]
        ELSE IF ean_input \in {df[i].EAN : i \in 1..Len(df)} THEN [df |-> df, form |-> "ean_exists"]
        ELSE [df |-> df, form |-> "added"]

\* step 2 of a run: the submitted form (st.stop() ends the run at a failed check)
FormStep(df, name_input, ean_choice) ==
    LET product_name == Strip(name_input)
        ean_input == IF ean_choice = UseSuggested THEN suggested_ean(df) ELSE ean_choice
    IN  IF Len(product_name) = 0 THEN [df |-> df, form |-> "name_missing"]
        ELSE IF ~IsDigit(ean_input) \/ Len(ean_input) # 13 THEN [df |-> df, form |-> "ean_invalid"]
        ELSE IF product_name \in ProductoColumn(df) THEN [df |-> df, form |-> "name_exists"]
        ELSE IF ean_input \in {df[i].EAN : i \in 1..Len(df)} THEN [df |-> df, form |-> "ean_exists"]
        ELSE [df |-> Append(df, Row(product_name, ean_input)), form |-> "added"]

\* uploaded files: name, header row, data rows (cells in header order)
FileA == [name |-> "a.xlsx", header |-> <<<<"P", "r", "o", "d", "u", "c", "t", "o">>, <<"E", "A", "N">>>>, rows |-> <<<<<<"A">>, WithSeq(1, "7")>>, <<<<"B">>, WithSeq(2, "0") \o <<".", "0">>>>, <<<<"A">>, WithSeq(41, "3")>>>>]

\* same name as FileA, other content
FileA2 == [name |-> "a.xlsx", header |-> <<<<"P", "r", "o", "d", "u", "c", "t", "o">>, <<"E", "A", "N">>>>, rows |-> <<<<<<"C">>, WithSeq(MaxSeq, "4")>>>>]

\* headers in other spellings; a short cell, an empty cell, a foreign code
FileB == [name |-> "b.xlsx", header |-> <<<<" ", "p", "r", "o", "d", "u", "c", "t", "o">>, <<"C", "o", "d", "i", "g", "o", " ", "E", "A", "N", "-", "1", "3">>>>, rows |-> <<<<<<"C">>, <<"1", "2", "3">>>>, <<<<"D">>, NaN>>, <<<<"C">>, ForeignPrefix \o <<"9", "9", "9", "9", "0">>>>>>]

\* no Producto column
FileC == [name |-> "c.xlsx", header |-> <<<<"N", "o", "m", "b", "r", "e">>, <<"E", "A", "N">>>>, rows |-> <<<<<<"A">>, WithSeq(1, "7")>>>>]

\* no data rows
FileD == [name |-> "d.xlsx", header |-> <<<<"E", "A", "N">>, <<"P", "R", "O", "D", "U", "C", "T", "O">>>>, rows |-> <<>>]

ShirtRedM == <<"S", "h", "i", "r", "t", " ", "R", "e", "d", " ", "-", " ", "M">>

\* one row: ("Shirt Red - M", "8437000000017")
FileE == [name |-> "e.xlsx", header |-> <<<<"P", "r", "o", "d", "u", "c", "t", "o">>, <<"E", "A", "N">>>>, rows |-> <<<<ShirtRedM, WithSeq(1, "7")>>>>]

InventoryFiles == {FileA, FileA2, FileB, FileC, FileD, FileE}

\* what the user types as product name
NameInputs == {<<>>, <<" ">>, <<"A">>, <<" ", "E", " ">>, <<"F">>}

\* what the user leaves or types in the EAN field (at most 13 characters)
EanInputs == {UseSuggested, <<"1", "2", "3">>, WithSeq(1, "7"), WithSeq(7, "5"), ForeignPrefix \o <<"0", "0", "0", "7", "5">>, COUNTRY_PREFIX \o <<"1", "2", "a", "4", "5">>}

\* the form is not rendered
NoForm == [suggested_ean |-> <<>>, accepted |-> FALSE]

\* the form as rendered in a run: shown once a file was loaded, with the
\* suggestion computed from the inventory as the load step left it
FormView(df, fname, submitted, ean_choice) ==
    IF fname = "" THEN NoForm
    ELSE [suggested_ean |-> suggested_ean(df), accepted |-> submitted /\ ean_choice = UseSuggested]

\* the suggested identifiers added since the last import
AcceptedAfter(accepted, load, form, view) ==
    IF load = "loaded" THEN <<>>
    ELSE IF form = "added" /\ view.accepted THEN Append(accepted, view.suggested_ean)
    ELSE accepted

\* one run of main(): load step, then the form if it was submitted
Run(file, submitted, name_input, ean_choice) ==
    \E l \in {LoadStep(file, df_inventory, uploaded_filename)} :
        /\ submitted => l.fname # ""
        /\ \E f \in {IF submitted THEN FormStep(l.df, name_input, ean_choice) ELSE [df |-> l.df, form |-> ""]}, view \in {FormView(l.df, l.fname, submitted, ean_choice)} :
            /\ uploaded_file' = file
            /\ uploaded_filename' = l.fname
            /\ df_inventory' = f.df
            /\ st_message' = [load |-> l.load, form |-> f.form]
            /\ form_state' = view
            /\ accepted_suggestions' = AcceptedAfter(accepted_suggestions, l.load, f.form, view)
            /\ UNCHANGED revision

\* the user puts a file in the uploader, or removes it
ChangeUpload(file) ==
    /\ file # uploaded_file
    /\ Run(file, FALSE, <<>>, <<>>)
    /\ UNCHANGED <<uc_vars, call_vars, render_vars, sample_vars>>

\* the user submits the "Anadir producto" form
SubmitAdd(name_input, ean_choice) ==
    /\ Run(uploaded_file, TRUE, name_input, ean_choice)
    /\ UNCHANGED <<uc_vars, call_vars, render_vars, sample_vars>>

\* any other interaction re-runs the script with the widgets as they are
Rerun ==
    /\ Run(uploaded_file, FALSE, <<>>, <<>>)
    /\ UNCHANGED <<uc_vars, call_vars, render_vars, sample_vars>>

(***************************************************************************)
(* The unique codes page: unique_codes.main, one script run per interaction *)
(***************************************************************************)
CODE_LENGTH == 8

\* string.ascii_uppercase + string.digits
characters == ascii_uppercase \o digits

\* what the random module hands out during one run of the loop body:
\*   upper    random.choice(string.ascii_uppercase)
\*   digit    random.choice(string.digits)
\*   choices  random.choices(characters, k=...), its first k elements are used
\*   shuffle  the permutation random.shuffle applies
Identity == <<1, 2, 3, 4, 5, 6, 7, 8>>

Reverse == <<8, 7, 6, 5, 4, 3, 2, 1>>

SwapFirstTwo == <<2, 1, 3, 4, 5, 6, 7, 8>>

RandomOutcomes == {[upper |-> "A", digit |-> "0", choices |-> <<"A", "A", "A", "A", "A", "A", "A", "A">>, shuffle |-> Identity], [upper |-> "B", digit |-> "7", choices |-> <<"Z", "9", "Z", "9", "Z", "9", "Z", "9">>, shuffle |-> Reverse], [upper |-> "A", digit |-> "0", choices |-> <<"A", "A", "A", "A", "A", "A", "A", "A">>, shuffle |-> SwapFirstTwo]}

\* generate_random_code
generate_random_code(length, r) ==
    LET code == <<r.upper, r.digit>> \o SubSeq(r.choices, 1, length - 2)
    IN  [i \in 1..Len(code) |-> code[r.shuffle[i]]]

\* a slip: the prefix is put after the random part
generate_random_code_with_suffix(prefix, length, r) == SubSeq(r.choices, 1, length - Len(prefix)) \o prefix

\* generate_random_code_with_prefix (remaining_length >= 0)
generate_random_code_with_prefix(prefix, length, r) == prefix \o SubSeq(r.choices, 1, length - Len(prefix))

\* manual_prefix is None
NoPrefix == <<"None">>

PrefixTooLong == "El prefijo supera la longitud permitida del codigo."

GenerationExhausted == "No se pudieron generar los codigos unicos"

\* a slip: every candidate is taken
AcceptsAnything(candidate, existing_codes, new_codes) == TRUE

\* candidate not in existing_codes and candidate not in new_codes
Accepts(candidate, existing_codes, new_codes) == candidate \notin existing_codes /\ candidate \notin Range(new_codes)

RECURSIVE SamplingLoop(_, _, _, _, _, _, _)
\* the while loop of get_unique_codes; draws[n] is what the random module hands
\* out in the n-th run of the body
SamplingLoop(new_codes, existing_codes, attempts, num_codes, manual_prefix, max_attempts, draws) ==
    IF Len(new_codes) < num_codes /\ attempts < max_attempts
    THEN IF manual_prefix # NoPrefix /\ CODE_LENGTH - Len(manual_prefix) < 0
         THEN [err |-> PrefixTooLong, new_codes |-> new_codes, attempts |-> attempts]
         ELSE LET candidate == IF manual_prefix # NoPrefix
                               THEN generate_random_code_with_prefix(manual_prefix, CODE_LENGTH, draws[attempts + 1])
                               ELSE generate_random_code(CODE_LENGTH, draws[attempts + 1])
              IN  IF Accepts(candidate, existing_codes, new_codes)
                  THEN SamplingLoop(Append(new_codes, candidate), existing_codes \cup {candidate}, attempts + 1, num_codes, manual_prefix, max_attempts, draws)
                  ELSE SamplingLoop(new_codes, existing_codes, attempts + 1, num_codes, manual_prefix, max_attempts, draws)
    ELSE [err |-> "", new_codes |-> new_codes, attempts |-> attempts]

\* set(df_history["Codigo_Unico"].dropna().str.strip())
ExistingCodes(df_history) == {Strip(df_history[i]) : i \in {j \in 1..Len(df_history) : df_history[j] # NaN}}

\* a slip: the codes accepted so far are returned when the attempts ran out
AfterLoopReturnsPartial(end, num_codes) ==
    IF end.err # "" THEN [err |-> end.err, val |-> <<>>, attempts |-> end.attempts, accepted |-> Len(end.new_codes)]
    ELSE [err |-> "", val |-> end.new_codes, attempts |-> end.attempts, accepted |-> Len(end.new_codes)]

\* the end of get_unique_codes: raise when too few codes were accepted, else
\* return them; attempts and accepted are the loop's counters when it ended
AfterLoop(end, num_codes) ==
    IF end.err # "" THEN [err |-> end.err, val |-> <<>>, attempts |-> end.attempts, accepted |-> Len(end.new_codes)]
    ELSE IF Len(end.new_codes) < num_codes THEN [err |-> GenerationExhausted, val |-> <<>>, attempts |-> end.attempts, accepted |-> Len(end.new_codes)]
    ELSE [err |-> "", val |-> end.new_codes, attempts |-> end.attempts, accepted |-> Len(end.new_codes)]

\* get_unique_codes: val is the list returned ("" in err), nothing when it raises
get_unique_codes(df_history, num_codes, manual_prefix, max_attempts, draws) == AfterLoop(SamplingLoop(<<>>, ExistingCodes(df_history), 0, num_codes, manual_prefix, max_attempts, draws), num_codes)

\* get_updated_history_excel: pd.concat([df_history, df_new])
get_updated_history_excel(df_history, new_codes) == df_history \o new_codes

NoUcMessage == [load |-> "", gen |-> ""]

NoCall == [num_codes |-> 0, use_manual_prefix |-> FALSE, manual_prefix_input |-> <<>>, attempts |-> 0, accepted |-> 0]

codigo_unico == <<"c", "o", "d", "i", "g", "o", "_", "u", "n", "i", "c", "o">>

codigo == <<"c", "o", "d", "i", "g", "o">>

\* the column names taken for the code column ("codigo unico" and "code" are the other two)
CodeColumnNames == {codigo_unico, codigo, <<"c", "o", "d", "i", "g", "o", " ", "u", "n", "i", "c", "o">>, <<"c", "o", "d", "e">>}

\* code_col: the first column with a recognised name, else the first column, 0 for None
CodeColumn(header) ==
    LET named == {i \in 1..Len(header) : Lower(Strip(header[i])) \in CodeColumnNames}
    IN  IF named # {} THEN CHOOSE i \in named : \A j \in named : i <= j
        ELSE IF Len(header) >= 1 THEN 1
        ELSE 0

RECURSIVE drop_duplicate_codes(_)
\* df.drop_duplicates(subset=["Codigo_Unico"])
drop_duplicate_codes(col) ==
    IF Len(col) = 0 THEN col
    ELSE LET front == SubSeq(col, 1, Len(col) - 1)
         IN  IF col[Len(col)] \in Range(front) THEN drop_duplicate_codes(front)
             ELSE Append(drop_duplicate_codes(front), col[Len(col)])

\* step 1 of a run: load the uploaded history if it is new (by name)
LoadHistoryStep(file, df, fname, codes) ==
    IF file # NoFile /\ file.name # fname
    THEN IF CodeColumn(file.header) # 0
         THEN [df |-> drop_duplicate_codes([i \in 1..Len(file.rows) |-> Strip(AsTypeStr(file.rows[i][CodeColumn(file.header)]))]), fname |-> file.name, codes |-> <<>>, load |-> "loaded"]
         ELSE [df |-> df, fname |-> fname, codes |-> codes, load |-> "error"]
    ELSE [df |-> df, fname |-> fname, codes |-> codes, load |-> ""]

\* manual_prefix as the page computes it from the checkbox and the text input
ManualPrefix(use_manual_prefix, manual_prefix_input) ==
    IF use_manual_prefix /\ Len(manual_prefix_input) > 0 /\ IsAlnum(Upper(manual_prefix_input))
    THEN Upper(manual_prefix_input)
    ELSE NoPrefix

\* a slip: the list is replaced even when get_unique_codes raised
CodesAfterGenerateAlwaysReplaced(result, old_codes) == result.val

\* st.session_state.newly_generated_codes after the try block
CodesAfterGenerate(result, old_codes) == IF result.err = "" THEN result.val ELSE old_codes

\* default max_attempts of get_unique_codes (10000 in the code)
MaxAttempts == 2

\* largest num_codes_needed entered (1000 in the code)
MaxNumCodes == 2

\* the try block around get_unique_codes, given what the call gave
TryBlock(result, df, codes, call) ==
    [codes |-> CodesAfterGenerate(result, codes),
     gen |-> IF result.err = "" THEN "generated" ELSE "error",
     export |-> IF result.err = "" THEN get_updated_history_excel(df, result.val) ELSE <<>>,
     call |-> call @@ [attempts |-> result.attempts, accepted |-> result.accepted]]

\* step 2 of a run: the "Generar Codigos" button was clicked
GenerateStep(df, codes, num_codes, use_manual_prefix, manual_prefix_input, draws) ==
    LET manual_prefix == ManualPrefix(use_manual_prefix, manual_prefix_input)
        call == [num_codes |-> num_codes, use_manual_prefix |-> use_manual_prefix, manual_prefix_input |-> manual_prefix_input]
    IN  IF num_codes <= 0
        THEN [codes |-> codes, gen |-> "invalid_number", export |-> <<>>, call |-> call @@ [attempts |-> 0, accepted |-> 0]]
        ELSE IF use_manual_prefix /\ manual_prefix = NoPrefix
        THEN [codes |-> codes, gen |-> "invalid_prefix", export |-> <<>>, call |-> call @@ [attempts |-> 0, accepted |-> 0]]
        ELSE TryBlock(get_unique_codes(df, num_codes, manual_prefix, MaxAttempts, draws), df, codes, call)

\* history files: one column of codes
HistoryA == [name |-> "h1.xlsx", header |-> <<<<"C", "o", "d", "i", "g", "o", "_", "U", "n", "i", "c", "o">>>>, rows |-> <<<<<<"A", "0", "A", "A", "A", "A", "A", "A">>>>, <<<<" ", "V", "I", "P", "A", "A", "A", "A", "A", " ">>>>, <<NaN>>, <<<<"A", "0", "A", "A", "A", "A", "A", "A">>>>>>]

\* no recognised column name: the first column is used
HistoryB == [name |-> "h2.xlsx", header |-> <<<<"n", "o", "t", "a">>, <<"c", "o", "d", "e", "s">>>>, rows |-> <<<<<<"9", "Z", "9", "Z", "9", "Z", "7", "B">>, <<"x">>>>>>]

\* no column at all
HistoryC == [name |-> "h3.xlsx", header |-> <<>>, rows |-> <<>>]

\* an empty history
HistoryD == [name |-> "h4.xlsx", header |-> <<<<"c", "o", "d", "e">>>>, rows |-> <<>>]

HistoryFiles == {HistoryA, HistoryB, HistoryC, HistoryD}

\* whether the click gets as far as calling get_unique_codes
ReachesSampling(use_manual_prefix, manual_prefix_input) == ~use_manual_prefix \/ ManualPrefix(use_manual_prefix, manual_prefix_input) # NoPrefix

\* what the user types as prefix (at most 4 characters)
PrefixInputs == {<<>>, <<"v", "I", "p">>, <<"a", "b", "1", "2">>, <<"V", "-">>, <<n_tilde>>}

\* no call, nothing drawn
NoDraws == <<>>

\* one run of main(): load step, then the button if it was clicked
RunUnique(file, clicked, num_codes, use_manual_prefix, manual_prefix_input, draws) ==
    \E l \in {LoadHistoryStep(file, df_unique_history, uploaded_unique_filename, newly_generated_codes)} :
        /\ clicked => l.fname # ""
        /\ \E g \in {IF clicked THEN GenerateStep(l.df, l.codes, num_codes, use_manual_prefix, manual_prefix_input, draws) ELSE [codes |-> l.codes, gen |-> "", export |-> <<>>, call |-> NoCall]} :
            /\ uploaded_unique_file' = file
            /\ uploaded_unique_filename' = l.fname
            /\ df_unique_history' = l.df
            /\ newly_generated_codes' = g.codes
            /\ uc_message' = [load |-> l.load, gen |-> g.gen]
            /\ uc_call' = g.call
            /\ excel_export' = g.export

\* the user puts a history file in the uploader, or removes it
ChangeHistoryUpload(file) ==
    /\ file # uploaded_unique_file
    /\ RunUnique(file, FALSE, 0, FALSE, <<>>, NoDraws)
    /\ UNCHANGED <<inv_vars, call_vars, render_vars, sample_vars>>

\* the user clicks "Generar Codigos" without the manual prefix
GenerateCodes(num_codes, draws) ==
    /\ RunUnique(uploaded_unique_file, TRUE, num_codes, FALSE, <<>>, draws)
    /\ UNCHANGED <<inv_vars, call_vars, render_vars, sample_vars>>

\* the user clicks "Generar Codigos" with the manual prefix box ticked
GenerateCodesWithPrefix(num_codes, manual_prefix_input, draws) ==
    /\ RunUnique(uploaded_unique_file, TRUE, num_codes, TRUE, manual_prefix_input, draws)
    /\ UNCHANGED <<inv_vars, call_vars, render_vars, sample_vars>>

\* any other interaction re-runs the script with the widgets as they are
RerunUnique ==
    /\ RunUnique(uploaded_unique_file, FALSE, 0, FALSE, <<>>, NoDraws)
    /\ UNCHANGED <<inv_vars, call_vars, render_vars, sample_vars>>

\* nothing rendered, nothing sampled directly
NotRendered == [called |-> FALSE, ec |-> [err |-> "", pages |-> <<>>, errors |-> <<>>], app |-> [err |-> "", pages |-> <<>>, errors |-> <<>>]]

NotSampled == [called |-> FALSE, err |-> "", val |-> <<>>, attempts |-> 0, accepted |-> 0]

NoSample == [df_history |-> <<>>, num_codes |-> 0, manual_prefix |-> NoPrefix, max_attempts |-> 0, draws |-> <<>>]

RenderIdle == arg_products = <<>> /\ pdf = NotRendered

SampleIdle == arg_sample = NoSample /\ ret_sample = NotSampled

InitUnique == df_inventory = <<>> /\ uploaded_filename = "" /\ st_message = NoMessage /\ uploaded_file = NoFile /\ form_state = NoForm /\ accepted_suggestions = <<>> /\ revision = "ean_creator" /\ df_unique_history = <<>> /\ uploaded_unique_filename = "" /\ newly_generated_codes = <<>> /\ uc_message = NoUcMessage /\ uc_call = NoCall /\ excel_export = <<>> /\ uploaded_unique_file = NoFile /\ arg_df = <<>> /\ ret = [called |-> FALSE, seq |-> 0, ean |-> Raise(""), app_seq |-> RaiseInt(""), app_ean |-> Raise("")] /\ RenderIdle /\ SampleIdle

\* what the random module hands out in the runs of the loop body of one call
Draws == [1..MaxAttempts -> RandomOutcomes]

NextUnique ==
    \/ \E file \in HistoryFiles \cup {NoFile} : ChangeHistoryUpload(file)
    \/ \E num_codes \in 1..MaxNumCodes, draws \in Draws : GenerateCodes(num_codes, draws)
    \/ \E num_codes \in 1..MaxNumCodes, manual_prefix_input \in PrefixInputs : \E draws \in (IF ReachesSampling(TRUE, manual_prefix_input) THEN Draws ELSE {NoDraws}) : GenerateCodesWithPrefix(num_codes, manual_prefix_input, draws)
    \/ RerunUnique

SpecUnique == InitUnique /\ [][NextUnique]_vars

(***************************************************************************)
(* Direct calls of generate_next_ean on bounded inventories                *)
(***************************************************************************)
\* rows per inventory handed to a direct call
MaxRows == 3

SeqOf(X) == UNION {[1..n -> X] : n \in 0..MaxRows}

\* identifiers with the prefix and 13 digits (the check digit need not be right)
PatternEans == {WithSeq(1, "7"), WithSeq(2, "0"), WithSeq(41, "3"), WithSeq(MaxSeq, "2")}

\* foreign-prefixed 13-digit identifiers
ForeignEans == {ForeignPrefix \o <<"9", "9", "9", "9", "0">>, ForeignPrefix \o <<"0", "0", "0", "7", "5">>}

\* malformed cells: zfill of "nan", 14 digits, a letter in the sequence part, 11 digits
MalformedEans == {ZFill(<<"n", "a", "n">>, 13), COUNTRY_PREFIX \o <<"5", "0", "0", "0", "1", "2">>, COUNTRY_PREFIX \o <<"1", "2", "a", "4", "5">>, COUNTRY_PREFIX \o <<"1", "2", "3">>}

EanPool == PatternEans \cup ForeignEans \cup MalformedEans

AsRows(eans) == [i \in 1..Len(eans) |-> Row(<<"P", digits[i]>>, eans[i])]

\* the inventories a direct call is tried on: every short inventory over the
\* pool, and one single-row inventory per sequence number 0..MaxSeq
CallInputs == {AsRows(e) : e \in SeqOf(EanPool)} \cup {AsRows(<<WithSeq(s, "0")>>) : s \in 0..MaxSeq}

NotCalled == [called |-> FALSE, seq |-> 0, ean |-> Raise(""), app_seq |-> RaiseInt(""), app_ean |-> Raise("")]

InvIdle == df_inventory = <<>> /\ uploaded_filename = "" /\ st_message = NoMessage /\ uploaded_file = NoFile /\ form_state = NoForm /\ accepted_suggestions = <<>> /\ revision = "ean_creator"

UcIdle == df_unique_history = <<>> /\ uploaded_unique_filename = "" /\ newly_generated_codes = <<>> /\ uc_message = NoUcMessage /\ uc_call = NoCall /\ excel_export = <<>> /\ uploaded_unique_file = NoFile

CallIdle == arg_df = <<>> /\ ret = NotCalled

InitCall == InvIdle /\ UcIdle /\ RenderIdle /\ SampleIdle /\ arg_df \in CallInputs /\ ret = NotCalled

\* one call of _next_sequential_number and generate_next_ean of each revision
CallGenerateNextEan ==
    /\ ~ret.called
    /\ ret' = [called |-> TRUE, seq |-> _next_sequential_number(arg_df), ean |-> generate_next_ean(arg_df), app_seq |-> app_next_sequential_number(arg_df), app_ean |-> app_generate_next_ean(arg_df)]
    /\ UNCHANGED <<arg_df, inv_vars, uc_vars, render_vars, sample_vars>>

NextCall == CallGenerateNextEan

SpecCall == InitCall /\ [][NextCall]_vars

(***************************************************************************)
(* Direct calls of get_unique_codes on bounded arguments                   *)
(***************************************************************************)
\* a prefix as long as a code, and one that is longer
Prefix8 == <<"A", "B", "C", "D", "1", "2", "3", "4">>

Prefix9 == <<"A", "B", "C", "D", "1", "2", "3", "4", "5">>

\* histories: empty; one code; the only code with Prefix8 (once padded with
\* blanks, beside an empty cell); every code the draws can give without prefix
SampleHistories == {<<>>, <<<<"A", "0", "A", "A", "A", "A", "A", "A">>>>, <<Prefix8>>, <<<<" ">> \o Prefix8 \o <<" ">>, NaN>>, <<<<"A", "0", "A", "A", "A", "A", "A", "A">>, <<"9", "Z", "9", "Z", "9", "Z", "7", "B">>, <<"0", "A", "A", "A", "A", "A", "A", "A">>>>}

SamplePrefixes == {NoPrefix, <<"V", "I", "P">>, Prefix8, Prefix9}

SampleInputs == [df_history : SampleHistories, num_codes : 0..MaxNumCodes, manual_prefix : SamplePrefixes, max_attempts : 0..MaxAttempts, draws : Draws]

InitSample == InvIdle /\ UcIdle /\ CallIdle /\ RenderIdle /\ arg_sample \in SampleInputs /\ ret_sample = NotSampled

\* one call of get_unique_codes
CallGetUniqueCodes ==
    /\ ~ret_sample.called
    /\ \E r \in {get_unique_codes(arg_sample.df_history, arg_sample.num_codes, arg_sample.manual_prefix, arg_sample.max_attempts, arg_sample.draws)} :
           ret_sample' = [called |-> TRUE, err |-> r.err, val |-> r.val, attempts |-> r.attempts, accepted |-> r.accepted]
    /\ UNCHANGED <<arg_sample, inv_vars, uc_vars, call_vars, render_vars>>

NextSample == CallGetUniqueCodes

SpecSample == InitSample /\ [][NextSample]_vars

(***************************************************************************)
(* Claims about get_unique_codes (checked under SpecSample)                *)
(***************************************************************************)
\* the candidate the n-th draw of the call gives
CandidateAt(n) ==
    IF arg_sample.manual_prefix = NoPrefix
    THEN generate_random_code(8, arg_sample.draws[n])
    ELSE arg_sample.manual_prefix \o SubSeq(arg_sample.draws[n].choices, 1, 8 - Len(arg_sample.manual_prefix))

\* the codes of the history, blanks at the ends removed
HistoryCodes == {Strip(arg_sample.df_history[i]) : i \in {j \in 1..Len(arg_sample.df_history) : arg_sample.df_history[j] # NaN}}

\* the draws, among the first n, whose candidate is neither in the history nor an earlier candidate
NovelDraws(n) == {i \in 1..n : CandidateAt(i) \notin HistoryCodes /\ \A j \in 1..(i - 1) : CandidateAt(j) # CandidateAt(i)}

\* the prefix leaves room for a code of 8 characters
PrefixFits == arg_sample.manual_prefix = NoPrefix \/ Len(arg_sample.manual_prefix) <= 8

\* the history holds every code that exists for the prefix (a prefix of 8
\* characters is itself the only code)
HistoryHoldsEveryCode == arg_sample.manual_prefix # NoPrefix /\ Len(arg_sample.manual_prefix) = 8 /\ arg_sample.manual_prefix \in HistoryCodes

\* C16: a call of get_unique_codes (with a prefix that fits) ends after at
\* most max_attempts draws in total, every draw counted whether accepted or
\* rejected; it raises the exhaustion error exactly when fewer than num_codes
\* novel codes were accepted within those draws, and so whenever the history
\* holds every possible code for the prefix and at least one code is asked.
C16_AttemptsCappedAcrossCall ==
    (ret_sample.called /\ PrefixFits) =>
        /\ ret_sample.attempts <= arg_sample.max_attempts
        /\ ret_sample.accepted = Cardinality(NovelDraws(ret_sample.attempts))
        /\ ret_sample.err \in {"", GenerationExhausted}
        /\ ret_sample.err = GenerationExhausted <=> ret_sample.accepted < arg_sample.num_codes
        /\ ret_sample.err = GenerationExhausted => (ret_sample.attempts = arg_sample.max_attempts /\ ret_sample.val = <<>>)
        /\ ret_sample.err = "" => (Len(ret_sample.val) = arg_sample.num_codes /\ (arg_sample.num_codes > 0 => ret_sample.attempts \in NovelDraws(ret_sample.attempts)))
        /\ (HistoryHoldsEveryCode /\ arg_sample.num_codes > 0) => ret_sample.err = GenerationExhausted

C16_Witness ==
    /\ ret_sample.called /\ HistoryHoldsEveryCode /\ arg_sample.num_codes = 1
    /\ arg_sample.max_attempts = MaxAttempts /\ ret_sample.attempts = MaxAttempts
    /\ ret_sample.accepted = 0 /\ ret_sample.err = GenerationExhausted

(***************************************************************************)
(* Label documents: render_pdf_buffer (ean_creator.py) and                 *)
(* generate_labels_pdf (app.py).  Lengths are in tenths of a millimetre,   *)
(* so that every length the code writes (3.5 * mm included) is an integer. *)
(***************************************************************************)
\* reportlab.lib.units.mm, in tenths of a millimetre
mm == 10

\* reportlab.lib.pagesizes.A4 = (210 * mm, 297 * mm)
A4 == <<210 * mm, 297 * mm>>

width == A4[1]

height == A4[2]

margin_x == 8 * mm

margin_y == 12 * mm

extra_bottom_margin == 0 - 3 * mm

cols == 3

rows == 8

cell_w == 65 * mm

cell_h == 35 * mm

\* x0 = margin_x + col * cell_w (both revisions)
x0(col) == margin_x + col * cell_w

\* a slip: the row is not advanced, so the first row starts above the grid
y0_row_not_advanced(row) == height - (margin_y + extra_bottom_margin) - row * cell_h

\* ean_creator.py: y0 = height - (margin_y + extra_bottom_margin) - (row + 1) * cell_h
y0(row) == height - (margin_y + extra_bottom_margin) - (row + 1) * cell_h

\* app.py: y0 = height - margin_y - (row + 1) * cell_h
app_y0(row) == height - margin_y - (row + 1) * cell_h

\* range(rows) x range(cols)
GridCells == (0..(rows - 1)) \X (0..(cols - 1))

\* one page of ean_creator.py: the product's 24 cells, each with its origin
Page(product_name, ean_code) == [product_name |-> product_name, ean_code |-> ean_code, cells |-> [rc \in GridCells |-> [x0 |-> x0(rc[2]), y0 |-> y0(rc[1])]]]

\* one page of app.py
app_Page(product_name, ean_code) == [product_name |-> product_name, ean_code |-> ean_code, cells |-> [rc \in GridCells |-> [x0 |-> x0(rc[2]), y0 |-> app_y0(rc[1])]]]

IllegalCharacterError == "EAN code can only contain numbers."

NumberOfDigitsError == "EAN must have 13 digits"

\* EAN13NoChecksum.__init__: "" when the object is built, else what it raises
EAN13NoChecksum(ean) == IF ~IsDigit(ean) THEN IllegalCharacterError ELSE IF Len(ean) # 13 THEN NumberOfDigitsError ELSE ""

\* df.loc[df["Producto"] == product_name, "EAN"].iloc[0]
EanCodeOf(df, product_name) == df[CHOOSE i \in 1..Len(df) : df[i].Producto = product_name /\ \A j \in 1..(i - 1) : df[j].Producto # product_name].EAN

Rendered(pages) == [err |-> "", pages |-> pages, errors |-> <<>>]

RECURSIVE RenderLoop(_, _, _)
\* the loop of render_pdf_buffer: the first item that raises ends the call,
\* the exception leaves the function and no buffer is returned
RenderLoop(df, product_list, pages) ==
    IF Len(product_list) = 0 THEN Rendered(pages)
    ELSE LET product_name == Head(product_list)
             ean_code == EanCodeOf(df, product_name)
         IN  IF EAN13NoChecksum(ean_code) # ""
             THEN [err |-> EAN13NoChecksum(ean_code), pages |-> <<>>, errors |-> <<>>]
             ELSE RenderLoop(df, Tail(product_list), Append(pages, Page(product_name, ean_code)))

\* render_pdf_buffer (None is the document without pages)
render_pdf_buffer(df, product_list) == IF Len(product_list) = 0 THEN Rendered(<<>>) ELSE RenderLoop(df, product_list, <<>>)

RECURSIVE app_RenderLoop(_, _, _, _)
\* the loop of generate_labels_pdf: an item that raises is reported (st.error
\* with its identifier) and the loop goes on with the next item
app_RenderLoop(df, products, pages, errors) ==
    IF Len(products) = 0 THEN [err |-> "", pages |-> pages, errors |-> errors]
    ELSE LET product_name == Head(products)
             ean_code == EanCodeOf(df, product_name)
         IN  IF EAN13NoChecksum(ean_code) # ""
             THEN app_RenderLoop(df, Tail(products), pages, Append(errors, ean_code))
             ELSE app_RenderLoop(df, Tail(products), Append(pages, app_Page(product_name, ean_code)), errors)

\* generate_labels_pdf
generate_labels_pdf(df, products) == IF Len(products) = 0 THEN Rendered(<<>>) ELSE app_RenderLoop(df, products, <<>>, <<>>)

\* identifiers in the inventories rendered: 13 digits, zfill of "nan", 14 digits
RenderEans == {WithSeq(1, "3"), ZFill(<<"n", "a", "n">>, 13), COUNTRY_PREFIX \o <<"5", "0", "0", "0", "1", "2">>}

RenderInventories == {AsRows(e) : e \in [1..MaxRows -> RenderEans]}

\* st.multiselect: distinct product names of the inventory, in the order chosen
Selections(df) == {sel \in UNION {[1..n -> ProductoColumn(df)] : n \in 0..Len(df)} : \A i, j \in 1..Len(sel) : sel[i] = sel[j] => i = j}

InitRender == InvIdle /\ UcIdle /\ SampleIdle /\ ret = NotCalled /\ pdf = NotRendered /\ arg_df \in RenderInventories /\ arg_products \in Selections(arg_df)

\* the selected products are rendered by each revision
RenderLabels ==
    /\ ~pdf.called
    /\ pdf' = [called |-> TRUE, ec |-> render_pdf_buffer(arg_df, arg_products), app |-> generate_labels_pdf(arg_df, arg_products)]
    /\ UNCHANGED <<arg_products, call_vars, inv_vars, uc_vars, sample_vars>>

NextRender == RenderLabels

SpecRender == InitRender /\ [][NextRender]_vars

(***************************************************************************)
(* Claims about label documents (checked under SpecRender)                 *)
(***************************************************************************)
IsRenderable(df, product_name) == Len(EanCodeOf(df, product_name)) = 13 /\ IsDigit(EanCodeOf(df, product_name))

\* the selected items that can be drawn, and the identifiers of those that cannot
GoodItems == SelectSeq(arg_products, LAMBDA n : IsRenderable(arg_df, n))

BadItems == SelectSeq(arg_products, LAMBDA n : ~IsRenderable(arg_df, n))

\* the document has one page per item that can be drawn, in selection order,
\* and one reported failure per item that cannot
ContinuesAfterBadItem(doc) ==
    /\ [i \in 1..Len(doc.pages) |-> doc.pages[i].product_name] = GoodItems
    /\ [i \in 1..Len(doc.errors) |-> doc.errors[i]] = [i \in 1..Len(BadItems) |-> EanCodeOf(arg_df, BadItems[i])]

EanCreatorContinuesAfterBadItem == pdf.called => ContinuesAfterBadItem(pdf.ec)

AppContinuesAfterBadItem == pdf.called => ContinuesAfterBadItem(pdf.app)

\* C13: when the barcode of one selected item cannot be built (its identifier
\* is not 13 digits), the failure is reported for that item and the document
\* still has the pages of all the other selected items (both revisions).
C13_BadItemDoesNotAbortDocument == EanCreatorContinuesAfterBadItem /\ AppContinuesAfterBadItem

\* the cell at origin c lies within the page
CellInPage(c) == 0 <= c.x0 /\ c.x0 + cell_w <= width /\ 0 <= c.y0 /\ c.y0 + cell_h <= height

\* the interiors of the cells at origins a and b meet
CellsOverlap(a, b) == a.x0 < b.x0 + cell_w /\ b.x0 < a.x0 + cell_w /\ a.y0 < b.y0 + cell_h /\ b.y0 < a.y0 + cell_h

GridWithinPageNoOverlap(doc) ==
    \A i \in 1..Len(doc.pages) :
        LET cells == doc.pages[i].cells
        IN  /\ DOMAIN cells = (0..7) \X (0..2)
            /\ \A rc \in DOMAIN cells : CellInPage(cells[rc])
            /\ \A rc1, rc2 \in DOMAIN cells : rc1 # rc2 => ~CellsOverlap(cells[rc1], cells[rc2])

\* C14: on every page of a label document, each of the 3 x 8 cells of 65 mm x
\* 35 mm lies within the A4 page and no two distinct cells overlap (both
\* revisions; exact arithmetic on lengths in tenths of a millimetre).
C14_GridCellsWithinPageAndDisjoint == pdf.called => (GridWithinPageNoOverlap(pdf.ec) /\ GridWithinPageNoOverlap(pdf.app))

C14_Witness ==
    /\ pdf.called /\ Len(pdf.ec.pages) = 2 /\ Len(pdf.app.pages) = 2
    /\ pdf.ec.pages[2].cells[<<7, 2>>] = [x0 |-> 1380, y0 |-> 80]
    /\ pdf.app.pages[2].cells[<<0, 0>>] = [x0 |-> 80, y0 |-> 2500]

(***************************************************************************)
(* Claims about generate_next_ean (checked under SpecCall)                 *)
(***************************************************************************)
\* the number written in positions [8,12) of a 13-digit identifier
SeqPart(ean) == 1000 * DigitVal(ean[9]) + 100 * DigitVal(ean[10]) + 10 * DigitVal(ean[11]) + DigitVal(ean[12])

AllFollowPattern(df) == \A i \in 1..Len(df) : FollowsPattern(df[i].EAN)

\* n is 1 when there is no sequence number, else one more than the largest
IsMaxPlusOne(n, existing) == (\A s \in existing : s < n) /\ (n = 1 \/ n - 1 \in existing)

\* C1: on an inventory whose identifiers all carry the prefix and are 13
\* digits, both revisions choose max(existing sequence numbers) + 1, or 1 on
\* an empty inventory, and the identifier returned carries that number.
C1_NextSequenceIsMaxPlusOne ==
    (ret.called /\ AllFollowPattern(arg_df)) =>
        LET existing == {SeqPart(arg_df[i].EAN) : i \in 1..Len(arg_df)}
        IN  /\ IsMaxPlusOne(ret.seq, existing)
            /\ ret.app_seq.err = "" /\ IsMaxPlusOne(ret.app_seq.val, existing)
            /\ ret.seq <= MaxSeq => (ret.ean.err = "" /\ SeqPart(ret.ean.val) = ret.seq /\ ret.app_ean = ret.ean)

C1_Witness ==
    /\ ret.called /\ Len(arg_df) = 3 /\ AllFollowPattern(arg_df)
    /\ SeqPart(arg_df[1].EAN) = 41 /\ SeqPart(arg_df[2].EAN) = 1 /\ SeqPart(arg_df[3].EAN) = 2
    /\ ret.seq = 42 /\ ret.app_seq.val = 42

PatternRows(df) == SelectSeq(df, LAMBDA r : FollowsPattern(r.EAN))

\* ean_creator.py: rows that do not follow the pattern change nothing
EanCreatorIgnoresOtherRows ==
    ret.called => (ret.seq = _next_sequential_number(PatternRows(arg_df)) /\ ret.ean = generate_next_ean(PatternRows(arg_df)))

\* app.py: rows that do not follow the pattern change nothing
AppIgnoresOtherRows ==
    ret.called => (ret.app_seq = app_next_sequential_number(PatternRows(arg_df)) /\ ret.app_ean = app_generate_next_ean(PatternRows(arg_df)))

\* C2: malformed or foreign-prefixed identifiers are ignored: with them in the
\* inventory the call returns what it returns without them, and does not fail
\* because of them (both revisions).
C2_MalformedAndForeignIgnored == EanCreatorIgnoresOtherRows /\ AppIgnoresOtherRows

HoldsMaxSeq(df) == \E i \in 1..Len(df) : FollowsPattern(df[i].EAN) /\ SeqPart(df[i].EAN) = MaxSeq

\* ean_creator.py: with sequence number 9999 in use the call raises range-exhausted
EanCreatorRangeExhausted == (ret.called /\ HoldsMaxSeq(arg_df)) => ret.ean = Raise(RangeExhausted)

\* app.py: with sequence number 9999 in use the call raises range-exhausted
AppRangeExhausted == (ret.called /\ HoldsMaxSeq(arg_df)) => ret.app_ean = Raise(RangeExhausted)

\* neither revision wraps around or returns a sequence part of more than 4 digits
NeverWrapsNorOverflows ==
    (ret.called /\ HoldsMaxSeq(arg_df)) => (ret.ean.err # "" /\ ret.ean.val = <<>> /\ ret.app_ean.err # "" /\ ret.app_ean.val = <<>>)

\* C3: when the inventory holds the prefix with sequence number 9999,
\* generate_next_ean fails with the range-exhausted error and returns no
\* identifier (both revisions).
C3_ExhaustedRangeFails == EanCreatorRangeExhausted /\ AppRangeExhausted /\ NeverWrapsNorOverflows

RECURSIVE WeightedSum(_, _)
\* digits 1..n of ean weighted 1, 3, 1, 3, ... from the left
WeightedSum(ean, n) == IF n = 0 THEN 0 ELSE WeightedSum(ean, n - 1) + DigitVal(ean[n]) * (IF n % 2 = 1 THEN 1 ELSE 3)

\* C4: every identifier generate_next_ean (ean_creator.py) returns is 13
\* digits: the prefix, the 4-digit zero-padded sequence number in 1..9999, and
\* the check digit (10 - (weighted sum mod 10)) mod 10 of its first 12 digits.
C4_ReturnedEanWellFormed ==
    (ret.called /\ ret.ean.err = "") =>
        LET e == ret.ean.val
        IN  /\ Len(e) = 13 /\ IsDigit(e)
            /\ SubSeq(e, 1, 8) = COUNTRY_PREFIX
            /\ SeqPart(e) \in 1..MaxSeq /\ SeqPart(e) = ret.seq
            /\ DigitVal(e[13]) = (10 - (WeightedSum(e, 12) % 10)) % 10

C4_Witness == ret.called /\ ret.ean.err = "" /\ Len(arg_df) = 1 /\ SeqPart(ret.ean.val) = MaxSeq /\ ret.ean.val[13] = "4"

(***************************************************************************)
(* The inventory session                                                   *)
(***************************************************************************)
Init == InvIdle /\ UcIdle /\ CallIdle /\ RenderIdle /\ SampleIdle

Next ==
    \/ \E file \in InventoryFiles \cup {NoFile} : ChangeUpload(file)
    \/ \E name_input \in NameInputs, ean_choice \in EanInputs : SubmitAdd(name_input, ean_choice)
    \/ Rerun

Spec == Init /\ [][Next]_vars

(***************************************************************************)
(* The inventory session of the older revision (the script of app.py)      *)
(***************************************************************************)
Hoja1 == "Hoja1"

\* the name of the first sheet of an uploaded workbook
first_sheet(file) == IF file.name = "d.xlsx" THEN "Sheet1" ELSE Hoja1

\* app.py step 1: pd.read_excel(sheet_name="Hoja1") raises when the workbook
\* has no sheet of that name; the rest is the load step of ean_creator.py
app_LoadStep(file, df, fname) ==
    IF file # NoFile /\ file.name # fname /\ first_sheet(file) # Hoja1
    THEN [df |-> df, fname |-> fname, load |-> "error"]
    ELSE LoadStep(file, df, fname)

Samarreta == <<"S", "a", "m", "a", "r", "r", "e", "t", "a">>

\* f"{product_type} {color} - {size}".strip()
app_product_name(color, size) == Strip(Samarreta \o <<" ">> \o color \o <<" ", "-", " ">> \o size)

\* app.py step 2: the submitted form; new_ean is what generate_next_ean returned
app_FormStep(df, color, size, new_ean) ==
    IF Len(color) = 0 THEN [df |-> df, form |-> "color_missing"]
    ELSE IF app_product_name(color, size) \in ProductoColumn(df) THEN [df |-> df, form |-> "name_exists"]
    ELSE [df |-> Append(df, Row(app_product_name(color, size), new_ean)), form |-> "added"]

\* one run of the script: load step, then the form; generate_next_ean is called
\* while the form is drawn, and when it raises the run ends there
app_Run(file, submitted, color, size) ==
    \E l \in {app_LoadStep(file, df_inventory, uploaded_filename)} :
        \E new_ean \in {app_generate_next_ean(l.df)} :
            \E f \in {IF new_ean.err # "" THEN [df |-> l.df, form |-> "crashed"] ELSE IF submitted THEN app_FormStep(l.df, color, size, new_ean.val) ELSE [df |-> l.df, form |-> ""]} :
                /\ uploaded_file' = file
                /\ uploaded_filename' = l.fname
                /\ df_inventory' = f.df
                /\ st_message' = [load |-> l.load, form |-> f.form]
                /\ form_state' = [suggested_ean |-> new_ean.val, accepted |-> submitted /\ new_ean.err = ""]
                /\ accepted_suggestions' = AcceptedAfter(accepted_suggestions, l.load, f.form, [suggested_ean |-> new_ean.val, accepted |-> TRUE])
                /\ UNCHANGED revision

\* the user puts a file in the uploader, or removes it
AppChangeUpload(file) ==
    /\ revision = "app"
    /\ file # uploaded_file
    /\ app_Run(file, FALSE, <<>>, <<>>)
    /\ UNCHANGED <<uc_vars, call_vars, render_vars, sample_vars>>

\* the user submits the "Anadir producto" form
AppSubmitAdd(color, size) ==
    /\ revision = "app"
    /\ app_Run(uploaded_file, TRUE, color, size)
    /\ UNCHANGED <<uc_vars, call_vars, render_vars, sample_vars>>

\* any other interaction re-runs the script with the widgets as they are
AppRerun ==
    /\ revision = "app"
    /\ app_Run(uploaded_file, FALSE, <<>>, <<>>)
    /\ UNCHANGED <<uc_vars, call_vars, render_vars, sample_vars>>

\* what the user types as colour, and the sizes chosen
ColorInputs == {<<>>, <<"R", "e", "d">>}

SizeInputs == {<<"S">>, <<"M">>, <<"X", "L">>}

\* a session of either revision
InitBoth == df_inventory = <<>> /\ uploaded_filename = "" /\ st_message = NoMessage /\ uploaded_file = NoFile /\ form_state = NoForm /\ accepted_suggestions = <<>> /\ revision \in {"ean_creator", "app"} /\ UcIdle /\ CallIdle /\ RenderIdle /\ SampleIdle

NextBoth ==
    \/ revision = "ean_creator" /\ Next
    \/ \E file \in InventoryFiles \cup {NoFile} : AppChangeUpload(file)
    \/ \E color \in ColorInputs, size \in SizeInputs : AppSubmitAdd(color, size)
    \/ AppRerun

SpecBoth == InitBoth /\ [][NextBoth]_vars

(***************************************************************************)
(* Claims about the inventory session (checked under Spec)                 *)
(***************************************************************************)
\* C9: in every reachable state every row of the inventory has an identifier
\* of exactly 13 ASCII digits.
C9_EveryEanIs13Digits == \A i \in 1..Len(df_inventory) : Len(df_inventory[i].EAN) = 13 /\ IsDigit(df_inventory[i].EAN)

NamesUnique(df) == \A i, j \in 1..Len(df) : df[i].Producto = df[j].Producto => i = j

\* the rows of the uploaded file whose product name occurs in no earlier row
FirstOccurrences(file) ==
    LET p == ColumnIndex(file.header, "Producto")
    IN  {k \in 1..Len(file.rows) : \A j \in 1..(k - 1) : file.rows[j][p] # file.rows[k][p]}

\* right after a load the inventory is the uploaded file's first occurrences, in file order
FirstOccurrenceKept ==
    (st_message.load = "loaded" /\ st_message.form = "") =>
        LET firsts == FirstOccurrences(uploaded_file)
            p == ColumnIndex(uploaded_file.header, "Producto")
            e == ColumnIndex(uploaded_file.header, "EAN")
        IN  /\ Len(df_inventory) = Cardinality(firsts)
            /\ \A k \in firsts :
                   LET at == df_inventory[Cardinality({j \in firsts : j <= k})]
                   IN  at.Producto = uploaded_file.rows[k][p] /\ at.EAN = NormalizeEan(uploaded_file.rows[k][e])

\* C10: in every reachable state no two rows of the inventory have the same
\* product name; an import keeps the first row of each product name, and an
\* add never leaves a second row with a name already there.
C10_ProductNamesUnique == NamesUnique(df_inventory) /\ FirstOccurrenceKept

C10_Witness ==
    /\ uploaded_file = FileA /\ uploaded_filename = "a.xlsx"
    /\ Cardinality(FirstOccurrences(uploaded_file)) < Len(uploaded_file.rows)
    /\ Len(df_inventory) = 3 /\ df_inventory[1].EAN = WithSeq(1, "7")
    /\ st_message.form = "name_exists"

ValidationErrors == {"name_missing", "ean_invalid", "name_exists", "ean_exists"}

\* C11: a run that ends in an input validation error (an upload without the
\* Producto or EAN column; an add with an empty name, an identifier that is
\* not 13 digits, a name or an identifier already in the inventory) leaves
\* the inventory table and the recorded uploaded filename as they were.  (A
\* run whose add succeeds while the uploader still holds a rejected file is
\* a successful add, not a validation error.)
C11_ValidationErrorLeavesStateUnchanged ==
    [][((st_message'.load = "error" /\ st_message'.form # "added") \/ st_message'.form \in ValidationErrors) => (df_inventory' = df_inventory /\ uploaded_filename' = uploaded_filename)]_vars

C11_Witness ==
    /\ uploaded_file = FileC /\ uploaded_filename = "a.xlsx"
    /\ st_message = [load |-> "error", form |-> "ean_exists"]
    /\ Len(df_inventory) = 2

\* the 13th digit is the check digit of the first 12
CheckDigitValid(e) == Len(e) = 13 /\ IsDigit(e) /\ DigitVal(e[13]) = (10 - (WeightedSum(e, 12) % 10)) % 10

\* C12: an identifier typed by the user in the add-product form is added to
\* the inventory only if its 13th digit is the check digit recomputed from
\* its first 12 digits.
C12_ManualCodeCheckDigitValidated ==
    [][(st_message'.form = "added" /\ ~form_state'.accepted) => CheckDigitValid(df_inventory'[Len(df_inventory')].EAN)]_vars

ShirtInventory == <<Row(ShirtRedM, <<"8", "4", "3", "7", "0", "0", "0", "0", "0", "0", "0", "1", "7">>)>>

\* the form is on screen with the suggestion for the inventory as it is
FormShowsSuggestion == st_message.form \notin {"added", "crashed"} /\ (revision = "ean_creator" => uploaded_filename # "")

\* the statement with the identifier the specification names
C15_SuggestsEan025 ==
    (df_inventory = ShirtInventory /\ FormShowsSuggestion) => form_state.suggested_ean = <<"8", "4", "3", "7", "0", "0", "0", "0", "0", "0", "0", "2", "5">>

\* C15: with an inventory whose only row is ("Shirt Red - M", "8437000000017"),
\* the identifier suggested for a new product is "8437000000020": sequence
\* number 2, base 843700000002, followed by its check digit, which is 0; a
\* product added with the suggestion gets that identifier.
C15_SuggestsEan020 ==
    /\ (df_inventory = ShirtInventory /\ FormShowsSuggestion) =>
           /\ form_state.suggested_ean = <<"8", "4", "3", "7", "0", "0", "0", "0", "0", "0", "0", "2", "0">>
           /\ SeqPart(form_state.suggested_ean) = 2
           /\ CheckDigitValid(form_state.suggested_ean)
    /\ (Len(df_inventory) = 2 /\ SubSeq(df_inventory, 1, 1) = ShirtInventory /\ st_message.form = "added" /\ form_state.accepted) =>
           df_inventory[2].EAN = <<"8", "4", "3", "7", "0", "0", "0", "0", "0", "0", "0", "2", "0">>

C15_Witness ==
    /\ Len(df_inventory) = 2 /\ SubSeq(df_inventory, 1, 1) = ShirtInventory
    /\ st_message.form = "added" /\ form_state.accepted
    /\ df_inventory[2] = Row(<<"F">>, WithSeq(2, "0"))

(***************************************************************************)
(* Claims about the inventory session of both revisions (under SpecBoth)   *)
(***************************************************************************)
EanColumn(df) == {df[i].EAN : i \in 1..Len(df)}

\* the rows before the run are the first rows after it, unchanged and in order
KeepsRows == Len(df_inventory') >= Len(df_inventory) /\ SubSeq(df_inventory', 1, Len(df_inventory)) = df_inventory

\* C17: a successful add appends exactly one row, with a product name and an
\* identifier, and leaves the rows that were there unchanged in content and
\* order; a run that neither adds nor imports leaves the table as it was.
C17_AddAppendsExactlyOneRow ==
    [][/\ st_message'.form = "added" =>
              /\ KeepsRows /\ Len(df_inventory') = Len(df_inventory) + 1
              /\ df_inventory'[Len(df_inventory')].Producto \notin ProductoColumn(df_inventory)
              /\ Len(df_inventory'[Len(df_inventory')].Producto) > 0
              /\ form_state'.accepted => df_inventory'[Len(df_inventory')].EAN = form_state'.suggested_ean
       /\ (st_message'.form # "added" /\ st_message'.load # "loaded") => df_inventory' = df_inventory]_vars

C17_Witness ==
    /\ revision = "app" /\ st_message.form = "added" /\ uploaded_filename = "a.xlsx"
    /\ Len(df_inventory) = 4
    /\ df_inventory[4] = Row(<<"S", "a", "m", "a", "r", "r", "e", "t", "a", " ", "R", "e", "d", " ", "-", " ", "X", "L">>, WithSeq(4, "4"))

\* C18: the file is imported only in a run where its name differs from the
\* recorded one; once F is imported, a run in which the uploader still holds F
\* imports nothing, so the rows added since stay in the inventory.
C18_SameFileIsNotReimported ==
    [][/\ st_message'.load = "loaded" => (uploaded_file' # NoFile /\ uploaded_file'.name # uploaded_filename)
       /\ (uploaded_file' = uploaded_file /\ uploaded_file # NoFile /\ uploaded_filename = uploaded_file.name) =>
              (st_message'.load = "" /\ uploaded_filename' = uploaded_filename /\ KeepsRows)]_vars

C18_Witness ==
    /\ revision = "ean_creator" /\ uploaded_file = FileE /\ uploaded_filename = "e.xlsx"
    /\ st_message = NoMessage /\ Len(df_inventory) = 3 /\ Len(accepted_suggestions) = 2

\* the sequence numbers of the identifiers in a list are strictly increasing
StrictlyIncreasingSeq(eans) == \A i, j \in 1..Len(eans) : i < j => SeqPart(eans[i]) < SeqPart(eans[j])

\* the suggestions accepted since the last import have increasing sequence numbers
AcceptedSuggestionsIncrease == (\A i \in 1..Len(accepted_suggestions) : FollowsPattern(accepted_suggestions[i])) /\ StrictlyIncreasingSeq(accepted_suggestions)

\* the identifier the form suggests is not one of the inventory it was computed from
SuggestionIsFree == (FormShowsSuggestion /\ form_state.suggested_ean # <<>>) => form_state.suggested_ean \notin EanColumn(df_inventory)

\* the identifier added from the suggestion was in no row before the add
AcceptedSuggestionIsNew == [][(st_message'.form = "added" /\ form_state'.accepted) => form_state'.suggested_ean \notin EanColumn(df_inventory)]_vars

Generated == uc_message.gen = "generated"

PairwiseDistinct(codes) == \A i, j \in 1..Len(codes) : codes[i] = codes[j] => i = j

\* the batch has the requested size, 8 characters per code, no code twice, none from the history
BatchIsFresh ==
    Generated =>
        /\ Len(newly_generated_codes) = uc_call.num_codes
        /\ PairwiseDistinct(newly_generated_codes)
        /\ \A i \in 1..Len(newly_generated_codes) :
              /\ Len(newly_generated_codes[i]) = 8
              /\ newly_generated_codes[i] \notin Range(df_unique_history)

\* every character of every code of the batch is one of A-Z, 0-9
BatchOverAlphabet ==
    Generated => \A i \in 1..Len(newly_generated_codes) : Range(newly_generated_codes[i]) \subseteq Range(ascii_uppercase) \cup Range(digits)

\* C5: a successful generation returns exactly N codes, each of length 8 over
\* {A-Z, 0-9}, pairwise distinct and none of them in the history, with or
\* without a manual prefix.
C5_BatchFreshOverAlphabet == BatchIsFresh /\ BatchOverAlphabet

\* every successful generation adds its codes to the session's history
HistoryAccumulates == [][uc_message'.gen = "generated" => Range(newly_generated_codes') \subseteq Range(df_unique_history')]_vars

\* C6: the history accumulates the issued codes within a session, so a code
\* issued by one batch is never issued again by a later batch (here: the next
\* batch of the same session never repeats a code of the batch before it).
C6_NoCodeIssuedTwice == [][uc_message'.gen = "generated" => Range(newly_generated_codes') \cap Range(newly_generated_codes) = {}]_vars

\* the upper-cased form of each valid prefix the user can type
ExpectedPrefix(manual_prefix_input) ==
    CASE manual_prefix_input = <<"v", "I", "p">> -> <<"V", "I", "P">>
      [] manual_prefix_input = <<"a", "b", "1", "2">> -> <<"A", "B", "1", "2">>
      [] manual_prefix_input = <<n_tilde>> -> <<N_TILDE>>

\* C7: with a manual prefix of 1 to 4 alphanumeric characters in any letter
\* case, every code of the batch starts with the upper-cased prefix, is 8
\* characters long, and the codes are mutually distinct.
C7_CodesCarryUppercasedPrefix ==
    (Generated /\ uc_call.use_manual_prefix) =>
        /\ PairwiseDistinct(newly_generated_codes)
        /\ \A i \in 1..Len(newly_generated_codes) :
              /\ Len(newly_generated_codes[i]) = 8
              /\ StartsWith(newly_generated_codes[i], ExpectedPrefix(uc_call.manual_prefix_input))

C7_Witness ==
    /\ Generated /\ uc_call.use_manual_prefix /\ uc_call.manual_prefix_input = <<"v", "I", "p">>
    /\ df_unique_history = <<>> /\ uploaded_unique_filename = "h4.xlsx"
    /\ newly_generated_codes = <<<<"V", "I", "P", "A", "A", "A", "A", "A">>, <<"V", "I", "P", "Z", "9", "Z", "9", "Z">>>>

\* C8: when get_unique_codes raises the generation-exhausted error, the
\* session's newly_generated_codes and history are what they were before the
\* click, and the run offers no download of a partial batch.
C8_ExhaustionCommitsNothing ==
    [][uc_message'.gen = "error" => (newly_generated_codes' = newly_generated_codes /\ df_unique_history' = df_unique_history /\ excel_export' = <<>>)]_vars

C8_Witness ==
    /\ uc_message.gen = "error" /\ uc_call.num_codes = 2 /\ uc_call.accepted = 1 /\ uc_call.attempts = MaxAttempts
    /\ Len(newly_generated_codes) = 1 /\ excel_export = <<>>

====
